---- MODULE Spec2Model ----
(***************************************************************************)
(* Ethical ad client (src/index.js): the marker elements of a page, the    *)
(* Placements created for them, the JSONP decision request of each         *)
(* Placement, the viewport / view-time trackers and the page-ready promise *)
(* `wait`.  One action is one task of the browser's event loop, with the   *)
(* promise reactions (microtasks) it triggers.                             *)
(*                                                                         *)
(* Spec follows the Placements of pages with up to NumElements unstyled    *)
(* markers.  SpecViewTime follows one Placement through every view-time    *)
(* tick, SpecABP the ad-blocker probes, SpecStyled pages whose markers     *)
(* carry a style (dismiss controls), SpecKeywords pages with text.         *)
(* SpecViewTimeFair and SpecABPFair add the firing of the active timers.   *)
(***************************************************************************)

EXTENDS Integers, Sequences, FiniteSets, TLC

\* ---- bounds of the model ------------------------------------------------
NumElements == 2      \* marker elements the page may carry
MaxPlacements == 2    \* Placements loaded in one run
MaxProbes == 2        \* ad-blocker probes started in one run
NumNames == 2         \* distinct callback names drawn by fetch()
MaxViewTime == 1      \* view-time ticks followed per Placement (Spec)
MaxWords == 6         \* words of a short page text
HalfWords == 4        \* words of the repeated part of a long page text
MidWords == 1         \* words between the two halves of a long page text

\* ---- program constants --------------------------------------------------
MAX_WORDS_ANALYZED == 9999
MAX_KEYWORDS == 3
MIN_KEYWORD_OCCURRENCES == 2
VIEW_TIME_INTERVAL == 1
VIEW_TIME_MAX == 5 * 60

Elements == 1..NumElements
Names == 1..NumNames

\* ---- strings as sequences of atoms (a word or one white-space char) -----
SP == " "
LOADED == <<"loaded">>
IsSpace(c) == c = SP

\* String.prototype.split(sep) for a one-character separator
RECURSIVE Split(_, _)
Split(s, sep) ==
  IF \E i \in 1..Len(s) : s[i] = sep
  THEN LET i == CHOOSE k \in 1..Len(s) :
                  s[k] = sep /\ \A j \in 1..(k - 1) : s[j] # sep
       IN <<SubSeq(s, 1, i - 1)>> \o Split(SubSeq(s, i + 1, Len(s)), sep)
  ELSE <<s>>

\* Array.prototype.indexOf(item) >= 0
Contains(list, item) == \E i \in 1..Len(list) : list[i] = item

\* String.prototype.trim
RECURSIVE Trim(_)
Trim(s) ==
  IF s = <<>> THEN s
  ELSE IF IsSpace(Head(s)) THEN Trim(Tail(s))
  ELSE IF IsSpace(s[Len(s)]) THEN Trim(SubSeq(s, 1, Len(s) - 1))
  ELSE s

\* class attributes a page author may have written on a marker element
ClassNames == { <<>>, <<"x", SP, "loaded">> }

\* ---- keyword detection ---------------------------------------------------
\* A word of the page text (textContent.split(/\s+/)) is a sequence of atoms:
\* one punctuation character or one run of letters.  The double quote of the
\* two character classes is left out: no word of the model carries one.
LeadChars == {"(", "'"}
TrailChars == {",", ".", "?", "!", ":", ";", ")", "'"}

\* word.replace(wordTrimmer, "$1"): drops at most one leading and at most one
\* trailing punctuation character
wordTrimmer(word) ==
  LET a == IF word # <<>> /\ Head(word) \in LeadChars THEN Tail(word) ELSE word
  IN IF a # <<>> /\ a[Len(a)] \in TrailChars THEN SubSeq(a, 1, Len(a) - 1) ELSE a

\* String.prototype.toLowerCase on the runs of letters of the model
toLowerCase(word) ==
  [i \in 1..Len(word) |->
     IF word[i] = "Kubernetes" THEN "kubernetes" ELSE word[i]]


\* the entries of the dictionary for the words of the model
KEYWORDS ==
  [w \in {"kubernetes", "docker", "iphone", "ios", "python"} |->
     IF w = "iphone" THEN "ios" ELSE w]

\* KEYWORDS.hasOwnProperty(word)
hasOwnProperty(word) == Len(word) = 1 /\ word[1] \in DOMAIN KEYWORDS

\* the normalised form of a raw word, as looked up in the dictionary
Normalize(raw) == toLowerCase(wordTrimmer(raw))

\* keywordHist[tag] = (keywordHist[tag] || 0) + 1; the histogram is the
\* sequence of its entries in insertion order (Object.entries)
Increment(hist, tag) ==
  IF \E i \in 1..Len(hist) : hist[i].tag = tag
  THEN [i \in 1..Len(hist) |->
          IF hist[i].tag = tag THEN [hist[i] EXCEPT !.count = @ + 1] ELSE hist[i]]
  ELSE Append(hist, [tag |-> tag, count |-> 1])

\* the for loop over words, from index x (1-based) on
RECURSIVE keywordHist(_, _, _)
keywordHist(words, x, hist) ==
  IF x > Len(words) \/ x > MAX_WORDS_ANALYZED THEN hist
  ELSE LET word == Normalize(words[x]) IN
       keywordHist(words, x + 1,
                   IF hasOwnProperty(word) THEN Increment(hist, KEYWORDS[word[1]])
                   ELSE hist)

\* Frequent that keeps every entry of the histogram
Frequent_all(hist) == hist

\* .filter(a => a[1] >= MIN_KEYWORD_OCCURRENCES)
Frequent(hist) == SelectSeq(hist, LAMBDA a : a.count >= MIN_KEYWORD_OCCURRENCES)

\* .sort((a, b) => ...): most common first, equal counts keep their order
RECURSIVE SortByCount(_)
SortByCount(hist) ==
  IF hist = <<>> THEN <<>>
  ELSE LET rest == SortByCount(SubSeq(hist, 1, Len(hist) - 1))
           last == hist[Len(hist)]
           k == Cardinality({i \in 1..Len(rest) : rest[i].count >= last.count})
       IN SubSeq(rest, 1, k) \o <<last>> \o SubSeq(rest, k + 1, Len(rest))

\* the scan of detectKeywords: histogram, filter, sort, slice, map
ScanKeywords(words) ==
  LET sorted == SortByCount(Frequent(keywordHist(words, 1, <<>>)))
      top == SubSeq(sorted, 1, IF Len(sorted) < MAX_KEYWORDS THEN Len(sorted)
                               ELSE MAX_KEYWORDS)
  IN [i \in 1..Len(top) |-> top[i].tag]

\* export var detectedKeywords = null
NoKeywords == [set |-> FALSE, value |-> <<>>]

\* detectKeywords that takes an empty cached list for no cache
detectKeywords_emptyisunset(cache, words) ==
  IF cache.set /\ cache.value # <<>> THEN cache
  ELSE [set |-> TRUE, value |-> ScanKeywords(words)]

\* detectKeywords(): the cache after the call; its value is what is returned
detectKeywords(cache, words) ==
  IF cache.set THEN cache
  ELSE [set |-> TRUE, value |-> ScanKeywords(words)]

\* page texts: short ones over words with punctuation and capitals, long ones
\* (a half, a middle, the same half again) over plain dictionary words
RichWords ==
  { <<"kubernetes">>, <<"docker">>, <<"(", "Kubernetes", ".">>,
    <<"docker", ")", ")">>, <<"the">> }
PlainWords == { <<"kubernetes">>, <<"docker">>, <<"iphone">>, <<"ios">>, <<"python">> }
SeqsUpTo(S, n) == UNION {[1..k -> S] : k \in 0..n}
ShortPages == SeqsUpTo(RichWords, MaxWords)
LongPages ==
  {a \o b \o a : a \in [1..HalfWords -> PlainWords], b \in SeqsUpTo(PlainWords, MidWords)}
Pages == ShortPages \cup LongPages

\* texts a page script may later put in place of the first one
LaterPages == SeqsUpTo({ <<"docker">> }, 2)

\* ---- decision responses -------------------------------------------------
\* html: "absent" (missing or empty), "node" (markup that parses to a node),
\* "nonode" (truthy markup whose parse yields no node, firstChild is null)
HtmlValues == {"absent", "node", "nonode"}
ServerResponses ==
  [missing : {FALSE}, html : HtmlValues, view_url : BOOLEAN, view_time_url : BOOLEAN]
  \cup {[missing |-> TRUE, html |-> "absent", view_url |-> FALSE, view_time_url |-> FALSE]}

NullResponse == [present |-> FALSE, view_url |-> FALSE, view_time_url |-> FALSE, req |-> 0]

\* class EthicalAdsWarning extends Error, as thrown by load()
NoError == [class |-> "none", message |-> ""]
EthicalAdsWarning(message) == [class |-> "EthicalAdsWarning", message |-> message]

VARIABLES
  elements,         \* marker element -> [inDoc, className, manual, style, children]
  visibilityState,  \* document.visibilityState
  placements,       \* the Placements that were loaded, in creation order
  window,           \* callback name -> Placement whose closure window[name] is (0: unset)
  listeners,        \* visibilitychange listeners of document, in registration order
  probes,           \* number of detectABP probes started
  domReady,         \* wait_dom has resolved and its reaction has run
  bootAll,          \* the Promise.all of the bootstrap's load_placements call
  wait,             \* the exported page-ready promise
  uplifted,         \* the exported flag uplifted
  abp,              \* the detectABP probes started, in order: their closures' variables
  page,             \* words of the text of the page's main content
  detectedKeywords, \* the exported cache detectedKeywords
  console           \* what the reactions of wait have logged: [level, message] in order

vars == <<elements, visibilityState, placements, window, listeners,
          probes, domReady, bootAll, wait, uplifted, abp, page, detectedKeywords, console>>

Pids == 1..Len(placements)

\* ---- Placement ----------------------------------------------------------
\* constructor: view_time 0, view_time_sent false, response null
Placement(target, load_manually, style) ==
  [ target |-> target,
    load_manually |-> load_manually,
    style |-> style,
    keywords |-> <<>>,         \* options.keywords: the markers of the model carry none
    view_time |-> 0,
    view_time_sent |-> FALSE,
    response |-> NullResponse,
    boot |-> FALSE,            \* started by the bootstrap's load_placements call
    callback |-> 0,            \* name registered on window by fetch()
    script |-> "none",         \* injected script element: none / inflight / loaded / error
    fetch |-> "none",          \* promise of fetch(): none / pending / node / null / undefined
    load |-> "none",           \* promise of load(): none / pending / fulfilled / rejected
    error |-> NoError,         \* what load() rejected with
    viewport_detection |-> FALSE,   \* interval timer is active
    view_time_counter |-> FALSE,    \* interval timer is active
    view_pixels |-> 0,         \* view pixels this Placement appended
    time_pixels |-> 0 ]        \* view-time pixels this Placement appended

\* from_element with indexOf("loaded") > 0 for >= 0
from_element_null_offbyone(element) ==
  \E i \in 2..Len(Split(element.className, SP)) :
     Split(element.className, SP)[i] = LOADED

\* from_element returns null: "loaded" is among className.split(" ")
from_element_null(element) ==
  Contains(Split(element.className, SP), LOADED)

\* values of data-ea-style that applyStyles knows; "none": any other or absent
Styles == {"stickybox", "fixedfooter"}

\* the child a page author left in a marker element
Original == <<[kind |-> "orig", p |-> 0, q |-> 0]>>

\* a marker element of the page as written, and a place without a marker
Marker(className, manual, style) ==
  [inDoc |-> TRUE, className |-> className, manual |-> manual, style |-> style,
   children |-> Original]
NoMarker == [Marker(<<>>, FALSE, "none") EXCEPT !.inDoc = FALSE]

\* the state of the script once it ran, before any task: nothing loaded yet
Fresh ==
  /\ visibilityState = "visible"
  /\ placements = <<>>
  /\ window = [n \in Names |-> 0]
  /\ listeners = <<>>
  /\ probes = 0
  /\ domReady = FALSE
  /\ bootAll = [state |-> "none", error |-> "", entries |-> <<>>]
  /\ wait = [state |-> "pending", value |-> <<>>]
  /\ uplifted = FALSE
  /\ abp = <<>>
  /\ detectedKeywords = NoKeywords
  /\ console = <<>>

\* pages whose markers carry no style and whose text has no word
Init ==
  /\ elements \in [Elements ->
        {Marker(c, m, "none") : c \in ClassNames, m \in BOOLEAN} \cup {NoMarker}]
  /\ page = <<>>
  /\ Fresh

\* ---- promise reactions --------------------------------------------------
\* The handlers below run on a record st of the fields a task may change:
\* [placements, elements, listeners, bootAll, wait, console].

\* value of the fulfilled Promise.all of the bootstrap: one entry per marker,
\* null for a skipped marker, else what its load() promise fulfilled with
\* (the last reaction of load() returns nothing: undefined)
AllValues(entries) ==
  [i \in 1..Len(entries) |-> IF entries[i] = 0 THEN "null" ELSE "undefined"]

\* BootReaction whose .catch handler resolves with the loads that succeeded
BootReaction_partial(st, p) ==
  LET pl == st.placements[p]
      done == SelectSeq(st.bootAll.entries,
                        LAMBDA q : q # 0 /\ st.placements[q].load = "fulfilled")
  IN
  IF ~pl.boot \/ st.bootAll.state # "pending" THEN st
  ELSE IF pl.load = "rejected"
  THEN [st EXCEPT !.bootAll.state = "rejected",
                  !.wait = IF @.state = "pending"
                           THEN [state |-> "resolved", value |-> AllValues(done)]
                           ELSE @]
  ELSE IF \A i \in 1..Len(st.bootAll.entries) :
            st.bootAll.entries[i] # 0
              => st.placements[st.bootAll.entries[i]].load = "fulfilled"
  THEN [st EXCEPT !.bootAll.state = "fulfilled",
                  !.wait = IF @.state = "pending"
                           THEN [state |-> "resolved",
                                 value |-> AllValues(st.bootAll.entries)]
                           ELSE @]
  ELSE st

\* BootReaction whose .catch handler rejects the page-ready promise

BootReaction_rejecting(st, p) ==
  LET pl == st.placements[p] IN
  IF ~pl.boot \/ st.bootAll.state # "pending" THEN st
  ELSE IF pl.load = "rejected"
  THEN [st EXCEPT !.bootAll.state = "rejected",
                  !.wait = IF @.state = "pending"
                           THEN [state |-> "rejected", value |-> <<>>] ELSE @]
  ELSE IF \A i \in 1..Len(st.bootAll.entries) :
            st.bootAll.entries[i] # 0
              => st.placements[st.bootAll.entries[i]].load = "fulfilled"
  THEN [st EXCEPT !.bootAll.state = "fulfilled",
                  !.wait = IF @.state = "pending"
                           THEN [state |-> "resolved",
                                 value |-> AllValues(st.bootAll.entries)]
                           ELSE @]
  ELSE st

\* the logging of the .catch handler of wait: err is an Error (every value
\* load() rejects with is one); console.debug for an EthicalAdsWarning,
\* console.error for any other
LogError(err) ==
  IF err.class = "EthicalAdsWarning"
  THEN <<[level |-> "debug", message |-> err.message]>>
  ELSE <<[level |-> "error", message |-> err.message]>>

\* BootReaction whose .catch handler reports every error with console.error
BootReaction_loud(st, p) ==
  LET pl == st.placements[p] IN
  IF ~pl.boot \/ st.bootAll.state # "pending" THEN st
  ELSE IF pl.load = "rejected"
  THEN [st EXCEPT !.bootAll.state = "rejected",
                  !.wait = IF @.state = "pending"
                           THEN [state |-> "resolved", value |-> <<>>] ELSE @,
                  !.console = Append(@, [level |-> "error", message |-> pl.error.message])]
  ELSE IF \A i \in 1..Len(st.bootAll.entries) :
            st.bootAll.entries[i] # 0
              => st.placements[st.bootAll.entries[i]].load = "fulfilled"
  THEN [st EXCEPT !.bootAll.state = "fulfilled",
                  !.wait = IF @.state = "pending"
                           THEN [state |-> "resolved",
                                 value |-> AllValues(st.bootAll.entries)]
                           ELSE @]
  ELSE st

\* the reactions of `wait` on the bootstrap's Promise.all: after the load()
\* promise of Placement p settled
BootReaction(st, p) ==
  LET pl == st.placements[p] IN
  IF ~pl.boot \/ st.bootAll.state # "pending" THEN st
  ELSE IF pl.load = "rejected"
  THEN \* .catch: resolve([]), then the log entry
       [st EXCEPT !.bootAll.state = "rejected",
                  !.wait = IF @.state = "pending"
                           THEN [state |-> "resolved", value |-> <<>>] ELSE @,
                  !.console = @ \o LogError(pl.error)]
  ELSE IF \A i \in 1..Len(st.bootAll.entries) :
            st.bootAll.entries[i] # 0
              => st.placements[st.bootAll.entries[i]].load = "fulfilled"
  THEN \* .then: resolve(placements)
       [st EXCEPT !.bootAll.state = "fulfilled",
                  !.wait = IF @.state = "pending"
                           THEN [state |-> "resolved",
                                 value |-> AllValues(st.bootAll.entries)]
                           ELSE @]
  ELSE st

\* applyStyles(element): the ad node of Placement p, with a dismiss control
\* ("ad_hide") when the style is stickybox or fixedfooter
applyStyles(p, style) ==
  [kind |-> IF style \in Styles THEN "ad_hide" ELSE "ad", p |-> p, q |-> 0]

\* the success branch of load()'s first reaction and its second reaction
Loaded(st, p) ==
  LET e == st.placements[p].target IN
  [st EXCEPT
     !.elements[e].className = Trim(@ \o <<SP, "loaded">>),
     !.elements[e].children = <<applyStyles(p, st.placements[p].style)>>,
     !.placements[p].load = "fulfilled",
     !.placements[p].viewport_detection = TRUE,
     !.placements[p].view_time_counter = TRUE,
     !.listeners = Append(@, p)]

\* LoadReaction that tests !element before element === undefined
LoadReaction_falsyfirst(st, p, value) ==
  IF value \in {"undefined", "null"}
  THEN [st EXCEPT !.placements[p].load = "rejected",
                  !.placements[p].error = EthicalAdsWarning("No ads to show.")]
  ELSE Loaded(st, p)

\* LoadReaction without the !element test: a null element is styled and
\* appended, and appendChild(null) throws a TypeError after the target changed
LoadReaction_nonullcheck(st, p, value) ==
  LET e == st.placements[p].target IN
  IF value = "undefined"
  THEN [st EXCEPT !.placements[p].load = "rejected",
                  !.placements[p].error = EthicalAdsWarning("Ad decision request blocked")]
  ELSE IF value = "null"
  THEN [st EXCEPT !.elements[e].className = Trim(@ \o <<SP, "loaded">>),
                  !.elements[e].children = <<>>,
                  !.placements[p].load = "rejected",
                  !.placements[p].error = [class |-> "TypeError", message |-> ""]]
  ELSE Loaded(st, p)

\* LoadReaction that sets the trackers up whatever fetch() yields
LoadReaction_trackalways(st, p, value) ==
  LET tracked == [st EXCEPT !.placements[p].viewport_detection = TRUE,
                            !.placements[p].view_time_counter = TRUE,
                            !.listeners = Append(@, p)]
  IN
  IF value = "undefined"
  THEN [tracked EXCEPT !.placements[p].load = "rejected",
                       !.placements[p].error = EthicalAdsWarning("Ad decision request blocked")]
  ELSE IF value = "null"
  THEN [tracked EXCEPT !.placements[p].load = "rejected",
                       !.placements[p].error = EthicalAdsWarning("No ads to show.")]
  ELSE Loaded(st, p)

\* LoadReaction that never writes the target's className back
LoadReaction_noclass(st, p, value) ==
  LET e == st.placements[p].target IN
  IF value = "undefined"
  THEN [st EXCEPT !.placements[p].load = "rejected",
                  !.placements[p].error = EthicalAdsWarning("Ad decision request blocked")]
  ELSE IF value = "null"
  THEN [st EXCEPT !.placements[p].load = "rejected",
                  !.placements[p].error = EthicalAdsWarning("No ads to show.")]
  ELSE [Loaded(st, p) EXCEPT !.elements[e].className = st.elements[e].className]

\* load(): the two reactions chained on fetch(), run with fetch's value
LoadReaction(st, p, value) ==
  IF value = "undefined"
  THEN [st EXCEPT !.placements[p].load = "rejected",
                  !.placements[p].error = EthicalAdsWarning("Ad decision request blocked")]
  ELSE IF value = "null"
  THEN [st EXCEPT !.placements[p].load = "rejected",
                  !.placements[p].error = EthicalAdsWarning("No ads to show.")]
  ELSE Loaded(st, p)

\* resolve(value) of the promise of fetch(): a settled promise stays as it is
Resolve(st, p, value) ==
  IF st.placements[p].fetch # "pending" THEN st
  ELSE BootReaction(
         LoadReaction([st EXCEPT !.placements[p].fetch = value], p, value), p)

\* Callback that stores the response before it looks at its fields
Callback_storefirst(st, q, r, req) ==
  LET st1 == [st EXCEPT !.placements[q].response =
                 [present |-> TRUE, view_url |-> r.view_url,
                  view_time_url |-> r.view_time_url, req |-> req]]
  IN IF ~r.missing /\ r.html # "absent" /\ r.view_url
     THEN Resolve(st1, q, IF r.html = "node" THEN "node" ELSE "null")
     ELSE Resolve(st1, q, "null")

\* window[callback] as registered by the fetch() of Placement q, called with
\* response r (req: the request whose script carries r)
Callback(st, q, r, req) ==
  IF ~r.missing /\ r.html # "absent" /\ r.view_url
  THEN Resolve([st EXCEPT !.placements[q].response =
                   [present |-> TRUE, view_url |-> r.view_url,
                    view_time_url |-> r.view_time_url, req |-> req]],
               q, IF r.html = "node" THEN "node" ELSE "null")
  ELSE Resolve(st, q, "null")

Task(st) ==
  /\ placements' = st.placements
  /\ elements' = st.elements
  /\ listeners' = st.listeners
  /\ bootAll' = st.bootAll
  /\ wait' = st.wait
  /\ console' = st.console

Now == [placements |-> placements, elements |-> elements, listeners |-> listeners,
        bootAll |-> bootAll, wait |-> wait, console |-> console]

\* the injected script loads and runs: it calls window[callback](response)
ScriptLoad(p, r) ==
  /\ placements[p].script = "inflight"
  /\ Task(Callback([Now EXCEPT !.placements[p].script = "loaded"],
                   window[placements[p].callback], r, p))
  /\ UNCHANGED <<visibilityState, window, probes, domReady,
                 uplifted, abp, page, detectedKeywords>>

\* the injected script fires its error event: resolve()
ScriptError(p) ==
  /\ placements[p].script = "inflight"
  /\ Task(Resolve([Now EXCEPT !.placements[p].script = "error"], p, "undefined"))
  /\ UNCHANGED <<visibilityState, window, probes, domReady,
                 uplifted, abp, page, detectedKeywords>>

\* ---- load_placements ----------------------------------------------------
\* Placement.load() up to the return of fetch(): the callback is registered on
\* window under `name` and the script element is appended to head
StartLoad(ld, placement, name, boot) ==
  LET pid == Len(ld.placements) + 1
      cache == detectKeywords(ld.detectedKeywords, page)
  IN
  [ld EXCEPT
     !.detectedKeywords = cache,
     !.placements = Append(@, [placement EXCEPT !.boot = boot, !.callback = name,
                                                !.keywords = @ \o cache.value,
                                                !.script = "inflight",
                                                !.fetch = "pending",
                                                !.load = "pending"]),
     !.window[name] = pid,
     !.entries = Append(@, pid)]

\* detectABP(px, callback) up to its return: both images requested, the
\* first beforeCheck(callback, 250) has set a timer for beforeCheck(callback, 500)
NewProbe ==
  [checksRemain |-> 2, detected |-> FALSE, error1 |-> FALSE, error2 |-> FALSE,
   img1 |-> "requested", img2 |-> "requested", timeout |-> 250 * 2, called |-> FALSE,
   calls |-> 0]      \* invocations of the callback handed to detectABP

\* elements.map((element, index) => ...) over els, on a record
\* ld = [placements, window, probes, abp, detectedKeywords, entries]
RECURSIVE MapElements(_, _, _, _, _, _)
MapElements(els, index, ld, force_load, names, boot) ==
  IF els = <<>> THEN ld
  ELSE
    LET element == Head(els)
        isNull == from_element_null(elements[element])
        placement == Placement(element, elements[element].manual, elements[element].style)
        ld1 == IF index = 0 /\ ~isNull /\ ~force_load
               THEN [ld EXCEPT !.probes = @ + 1,      \* placement.detectABP(...)
                               !.abp = Append(@, NewProbe)]
               ELSE ld
        ld2 == IF ~isNull /\ (force_load \/ ~placement.load_manually)
               THEN StartLoad(ld1, placement, names[element], boot)
               ELSE [ld1 EXCEPT !.entries = Append(@, 0)]   \* return null
    IN MapElements(Tail(els), index + 1, ld2, force_load, names, boot)

\* document.querySelectorAll("[data-ea-publisher]"), in document order
RECURSIVE MarkersFrom(_)
MarkersFrom(e) ==
  IF e > NumElements THEN <<>>
  ELSE (IF elements[e].inDoc THEN <<e>> ELSE <<>>) \o MarkersFrom(e + 1)

node_list == MarkersFrom(1)

\* marker e is one for which map's callback calls placement.load()
Starts(e, force_load) ==
  ~from_element_null(elements[e]) /\ (force_load \/ ~elements[e].manual)

\* the names drawn by one call: one per marker it loads
NameDraws(force_load) ==
  {names \in [Elements -> Names] :
     \A e \in Elements : ~(elements[e].inDoc /\ Starts(e, force_load)) => names[e] = 1}

\* "ad_" + Date.now() + "_" + random: the names drawn are numbered in the
\* order of their first use; a later fetch() draws a name in use or the next
NamedInOrder(pls) ==
  \A i \in 1..Len(pls) :
    \A n \in 1..(pls[i].callback - 1) : \E j \in 1..(i - 1) : pls[j].callback = n

\* load_placements without the test for an empty list
NoPlacementsFound_never == FALSE

\* if (elements.length === 0) throw new Error("No ad placements found.")
NoPlacementsFound == Len(node_list) = 0

\* load_placements(force_load) up to its return: throws with no marker, else
\* yields the Placements it started; names[e] is the callback name drawn by
\* the fetch() for marker e
load_placements(force_load, names, boot) ==
  IF NoPlacementsFound
  THEN UNCHANGED <<placements, window, probes, abp, detectedKeywords>>    \* throw
  ELSE LET ld == MapElements(node_list, 0,
                   [placements |-> placements, window |-> window,
                    probes |-> probes, abp |-> abp,
                    detectedKeywords |-> detectedKeywords, entries |-> <<>>],
                   force_load, names, boot)
       IN /\ Len(ld.placements) <= MaxPlacements
          /\ ld.probes <= MaxProbes
          /\ NamedInOrder(ld.placements)
          /\ placements' = ld.placements
          /\ window' = ld.window
          /\ probes' = ld.probes
          /\ abp' = ld.abp
          /\ detectedKeywords' = ld.detectedKeywords

\* entries of the array handed to Promise.all by the call just made
NewEntries(force_load) ==
  LET old == Len(placements)
      started == [i \in 1..(Len(placements') - old) |-> old + i]
      skipped(e) == ~Starts(e, force_load)
      RECURSIVE Fill(_, _)
      Fill(els, next) ==
        IF els = <<>> THEN <<>>
        ELSE IF skipped(Head(els)) THEN <<0>> \o Fill(Tail(els), next)
        ELSE <<started[next]>> \o Fill(Tail(els), next + 1)
  IN Fill(node_list, 1)

\* the reaction of wait_dom: load_placements().then(...).catch(...)
Bootstrap ==
  /\ ~domReady
  /\ domReady' = TRUE
  /\ \E names \in NameDraws(FALSE) : load_placements(FALSE, names, TRUE)
  /\ IF NoPlacementsFound
     THEN \* the throw leaves the reaction: no .then/.catch is attached
          /\ bootAll' = [state |-> "threw", error |-> "No ad placements found.",
                         entries |-> <<>>]
          /\ wait' = wait
     ELSE LET entries == NewEntries(FALSE) IN
          IF \A i \in 1..Len(entries) : entries[i] = 0
          THEN /\ bootAll' = [state |-> "fulfilled", error |-> "", entries |-> entries]
               /\ wait' = [state |-> "resolved", value |-> AllValues(entries)]
          ELSE /\ bootAll' = [state |-> "pending", error |-> "", entries |-> entries]
               /\ wait' = wait
  /\ UNCHANGED <<elements, visibilityState, listeners, uplifted, page, console>>

\* the exported manual trigger: load_placements(true), its promise dropped
load ==
  /\ \E names \in NameDraws(TRUE) : load_placements(TRUE, names, FALSE)
  /\ UNCHANGED <<elements, visibilityState, listeners, domReady, bootAll, wait,
                 uplifted, page, console>>

\* the exported load_placements called by page code without the force flag
LoadPlacementsCall ==
  /\ \E names \in NameDraws(FALSE) : load_placements(FALSE, names, FALSE)
  /\ UNCHANGED <<elements, visibilityState, listeners, domReady, bootAll, wait,
                 uplifted, page, console>>

\* ---- trackers -----------------------------------------------------------
VisibilityStates == {"visible", "hidden"}

\* with the value of the first edition of Page Visibility that the listener
\* also tests for
AllVisibilityStates == VisibilityStates \cup {"unloaded"}

\* Placement.inViewport; rect is the answer of verge.inViewport(element, -3)
inViewport(pl, rect) ==
  pl.response.present /\ pl.response.view_url /\ rect /\ visibilityState = "visible"

\* ViewportTick without clearInterval(viewport_detection)
ViewportTick_noclear(p, rect) ==
  LET pl == placements[p] IN
  /\ pl.viewport_detection
  /\ IF inViewport(pl, rect)
     THEN /\ elements' = [elements EXCEPT ![pl.target].children =
                            Append(@, [kind |-> "view", p |-> p,
                                       q |-> IF uplifted THEN 1 ELSE 0])]
          /\ placements' = [placements EXCEPT ![p].view_pixels = @ + 1]
     ELSE UNCHANGED <<elements, placements>>
  /\ UNCHANGED <<visibilityState, window, listeners, probes, domReady,
                 bootAll, wait, uplifted, abp, page, detectedKeywords, console>>

\* one run of the viewport_detection interval callback (every 100 ms)

ViewportTick(p, rect) ==
  LET pl == placements[p] IN
  /\ pl.viewport_detection
  /\ IF inViewport(pl, rect)
     THEN /\ elements' = [elements EXCEPT ![pl.target].children =
                            Append(@, [kind |-> "view", p |-> p,
                                       q |-> IF uplifted THEN 1 ELSE 0])]
          /\ placements' = [placements EXCEPT ![p].view_pixels = @ + 1,
                                              ![p].viewport_detection = FALSE]
     ELSE UNCHANGED <<elements, placements>>
  /\ UNCHANGED <<visibilityState, window, listeners, probes, domReady,
                 bootAll, wait, uplifted, abp, page, detectedKeywords, console>>

\* view_time_counter without the test against VIEW_TIME_MAX
view_time_counter_nocap(p, rect) ==
  LET pl == placements[p] IN
  /\ pl.view_time_counter
  /\ placements' =
       IF pl.view_time_sent
       THEN [placements EXCEPT ![p].view_time_counter = FALSE]
       ELSE IF inViewport(pl, rect)
       THEN [placements EXCEPT ![p].view_time = @ + VIEW_TIME_INTERVAL]
       ELSE placements
  /\ UNCHANGED <<elements, visibilityState, window, listeners, probes,
                 domReady, bootAll, wait, uplifted, abp, page, detectedKeywords, console>>

\* view_time_counter without the test of view_time_sent
view_time_counter_nosenttest(p, rect) ==
  LET pl == placements[p] IN
  /\ pl.view_time_counter
  /\ placements' =
       IF inViewport(pl, rect)
       THEN [placements EXCEPT
               ![p].view_time = @ + VIEW_TIME_INTERVAL,
               ![p].view_time_counter = ~(pl.view_time + VIEW_TIME_INTERVAL >= VIEW_TIME_MAX)]
       ELSE placements
  /\ UNCHANGED <<elements, visibilityState, window, listeners, probes,
                 domReady, bootAll, wait, uplifted, abp, page, detectedKeywords, console>>

\* one run of the view_time_counter interval callback (every second)
view_time_counter(p, rect) ==
  LET pl == placements[p] IN
  /\ pl.view_time_counter
  /\ placements' =

       IF pl.view_time_sent
       THEN [placements EXCEPT ![p].view_time_counter = FALSE]
       ELSE IF inViewport(pl, rect)
       THEN [placements EXCEPT
               ![p].view_time = @ + VIEW_TIME_INTERVAL,
               ![p].view_time_counter = ~(pl.view_time + VIEW_TIME_INTERVAL >= VIEW_TIME_MAX)]
       ELSE placements
  /\ UNCHANGED <<elements, visibilityState, window, listeners, probes,
                 domReady, bootAll, wait, uplifted, abp, page, detectedKeywords, console>>

\* view_time_counter, followed for the first MaxViewTime seconds it counts
ViewTimeTick(p, rect) ==
  /\ placements[p].view_time_sent \/ placements[p].view_time < MaxViewTime
  /\ view_time_counter(p, rect)

\* visibility_change_listener that neither tests view_time_sent nor removes itself

visibility_change_listener_resend(st, p, vis) ==
  LET pl == st.placements[p] IN
  IF pl.view_time <= 0 \/ ~pl.response.view_time_url THEN st
  ELSE IF vis = "hidden" \/ vis = "unloaded"
  THEN [st EXCEPT
          !.elements[pl.target].children =
             Append(@, [kind |-> "time", p |-> p, q |-> pl.view_time]),
          !.placements[p].time_pixels = @ + 1,
          !.placements[p].view_time_sent = TRUE]
  ELSE st

\* visibility_change_listener that tests for "hidden" only
visibility_change_listener_hiddenonly(st, p, vis) ==
  LET pl == st.placements[p] IN
  IF pl.view_time <= 0 \/ pl.view_time_sent \/ ~pl.response.view_time_url THEN st
  ELSE IF vis = "hidden"
  THEN [st EXCEPT

          !.elements[pl.target].children =
             Append(@, [kind |-> "time", p |-> p, q |-> pl.view_time]),
          !.placements[p].time_pixels = @ + 1,
          !.placements[p].view_time_sent = TRUE,
          !.listeners = SelectSeq(@, LAMBDA x : x # p)]
  ELSE st

\* visibility_change_listener of Placement p, run while visibilityState is vis
visibility_change_listener(st, p, vis) ==
  LET pl == st.placements[p] IN
  IF pl.view_time <= 0 \/ pl.view_time_sent \/ ~pl.response.view_time_url THEN st
  ELSE IF vis = "hidden" \/ vis = "unloaded"
  THEN [st EXCEPT
          !.elements[pl.target].children =
             Append(@, [kind |-> "time", p |-> p, q |-> pl.view_time]),
          !.placements[p].time_pixels = @ + 1,
          !.placements[p].view_time_sent = TRUE,
          !.listeners = SelectSeq(@, LAMBDA x : x # p)]
  ELSE st

\* the listeners registered when the event is dispatched run in registration order
RECURSIVE Dispatch(_, _, _)
Dispatch(ls, st, vis) ==
  IF ls = <<>> THEN st
  ELSE Dispatch(Tail(ls), visibility_change_listener(st, Head(ls), vis), vis)

\* document.visibilityState changes to vis and visibilitychange is dispatched
VisibilityChange(vis) ==
  /\ vis # visibilityState
  /\ visibilityState' = vis
  /\ Task(Dispatch(listeners, Now, vis))
  /\ UNCHANGED <<window, probes, domReady, uplifted, abp, page, detectedKeywords>>

Next ==
  \/ Bootstrap
  \/ load
  \/ LoadPlacementsCall
  \/ \E p \in Pids, r \in ServerResponses : ScriptLoad(p, r)
  \/ \E p \in Pids : ScriptError(p)
  \/ \E p \in Pids, rect \in BOOLEAN : ViewportTick(p, rect)
  \/ \E p \in Pids, rect \in BOOLEAN : ViewTimeTick(p, rect)
  \/ \E vis \in VisibilityStates : VisibilityChange(vis)

Spec == Init /\ [][Next]_vars

\* a page with one marker, in the document order of the page
InitOne ==
  /\ elements = [e \in Elements |->
                   IF e = 1 THEN Marker(<<>>, FALSE, "none") ELSE NoMarker]
  /\ page = <<>>
  /\ Fresh


\* ---- keyword detection on pages with text -------------------------------
\* a page script replaces the text of the main content
ChangePage(words) ==
  /\ words # page
  /\ page' = words
  /\ UNCHANGED <<elements, visibilityState, placements, window, listeners, probes,
                 domReady, bootAll, wait, uplifted, abp, detectedKeywords, console>>

\* a page with one marker and some text; every load() calls detectKeywords
InitKeywords ==
  /\ elements = [e \in Elements |->
                   IF e = 1 THEN Marker(<<>>, FALSE, "none") ELSE NoMarker]
  /\ page \in Pages
  /\ Fresh

NextKeywords ==
  \/ load
  \/ \E words \in LaterPages : ChangePage(words)

SpecKeywords == InitKeywords /\ [][NextKeywords]_vars

\* ---- dismiss controls ---------------------------------------------------

\* the click handler of the dismiss control that applyStyles put into the ad
\* of Placement p: document.querySelector("[data-ea-publisher]").remove().
\* The control can be clicked while the ad is shown in the document.
HideClick(p) ==
  LET e == placements[p].target IN
  /\ elements[e].inDoc
  /\ elements[e].children # <<>>
  /\ Head(elements[e].children) = [kind |-> "ad_hide", p |-> p, q |-> 0]
  /\ elements' = [elements EXCEPT ![Head(node_list)].inDoc = FALSE]
  /\ UNCHANGED <<visibilityState, placements, window, listeners, probes, domReady,
                 bootAll, wait, uplifted, abp, page, detectedKeywords, console>>

\* pages whose markers may carry a style, loaded by the bootstrap
InitStyled ==
  /\ elements \in [Elements -> {Marker(<<>>, FALSE, s) : s \in Styles \cup {"none"}}]
  /\ page = <<>>
  /\ Fresh

NextStyled ==
  \/ Bootstrap
  \/ \E p \in Pids, r \in ServerResponses : ScriptLoad(p, r)
  \/ \E p \in Pids : ScriptError(p)
  \/ \E p \in Pids, rect \in BOOLEAN : ViewportTick(p, rect)
  \/ \E p \in Pids : HideClick(p)

SpecStyled == InitStyled /\ [][NextStyled]_vars

\* ---- the ad-blocker probes ----------------------------------------------

\* checkImages(): if (--checksRemain) return; detected = !error1 && error2
checkImages(pr) ==
  IF pr.checksRemain - 1 # 0
  THEN [pr EXCEPT !.checksRemain = @ - 1]
  ELSE [pr EXCEPT !.checksRemain = @ - 1, !.detected = ~pr.error1 /\ pr.error2]

\* image k (1 or 2) of probe i fires its load event
ImgLoad(i, k) ==
  /\ (IF k = 1 THEN abp[i].img1 ELSE abp[i].img2) = "requested"
  /\ abp' = [abp EXCEPT ![i] =
               checkImages(IF k = 1 THEN [@ EXCEPT !.img1 = "load"]
                           ELSE [@ EXCEPT !.img2 = "load"])]
  /\ UNCHANGED <<elements, visibilityState, placements, window, listeners, probes,
                 domReady, bootAll, wait, uplifted, page, detectedKeywords, console>>

\* image k (1 or 2) of probe i fires its error event
ImgError(i, k) ==
  /\ (IF k = 1 THEN abp[i].img1 ELSE abp[i].img2) = "requested"
  /\ abp' = [abp EXCEPT ![i] =
               checkImages(IF k = 1 THEN [@ EXCEPT !.img1 = "error", !.error1 = TRUE]
                           ELSE [@ EXCEPT !.img2 = "error", !.error2 = TRUE])]
  /\ UNCHANGED <<elements, visibilityState, placements, window, listeners, probes,
                 domReady, bootAll, wait, uplifted, page, detectedKeywords, console>>

\* beforeCheck without the test timeout > 1E3
beforeCheck_nolimit(i) ==
  LET pr == abp[i] IN
  /\ ~pr.called
  /\ IF pr.checksRemain = 0
     THEN /\ uplifted' = (pr.checksRemain = 0 /\ pr.detected)
          /\ abp' = [abp EXCEPT ![i].called = TRUE, ![i].calls = @ + 1]
     ELSE /\ abp' = [abp EXCEPT ![i].timeout = @ * 2]
          /\ uplifted' = uplifted
  /\ UNCHANGED <<elements, visibilityState, placements, window, listeners, probes,
                 domReady, bootAll, wait, page, detectedKeywords, console>>

\* the timer of probe i fires: beforeCheck(callback, timeout), where callback
\* is the function of load_placements that assigns uplifted
beforeCheck(i) ==
  LET pr == abp[i] IN
  /\ ~pr.called
  /\ IF pr.checksRemain = 0 \/ pr.timeout > 1000
     THEN /\ uplifted' = (pr.checksRemain = 0 /\ pr.detected)
          /\ abp' = [abp EXCEPT ![i].called = TRUE, ![i].calls = @ + 1]
     ELSE /\ abp' = [abp EXCEPT ![i].timeout = @ * 2]
          /\ uplifted' = uplifted
  /\ UNCHANGED <<elements, visibilityState, placements, window, listeners, probes,
                 domReady, bootAll, wait, page, detectedKeywords, console>>

\* a page with one marker; its probes are followed, its requests stay in flight
NextABP ==
  \/ Bootstrap
  \/ load
  \/ LoadPlacementsCall
  \/ \E i \in 1..Len(abp), k \in 1..2 : ImgLoad(i, k)
  \/ \E i \in 1..Len(abp), k \in 1..2 : ImgError(i, k)
  \/ \E i \in 1..Len(abp) : beforeCheck(i)

SpecABP == InitOne /\ [][NextABP]_vars

\* setTimeout: the pending timer of each probe fires
SpecABPFair ==
  /\ InitOne
  /\ [][NextABP]_vars
  /\ \A i \in 1..MaxProbes : WF_vars(i <= Len(abp) /\ beforeCheck(i))

\* ---- one Placement followed to the view-time cap ------------------------

\* a page with one marker, loaded by the bootstrap
NextViewTime ==

  \/ Bootstrap
  \/ \E p \in Pids, r \in ServerResponses : ScriptLoad(p, r)
  \/ \E p \in Pids, rect \in BOOLEAN : view_time_counter(p, rect)
  \/ \E vis \in AllVisibilityStates : VisibilityChange(vis)

SpecViewTime == InitOne /\ [][NextViewTime]_vars

\* setInterval: while the timer is active its callback runs again and again
SpecViewTimeFair ==
  /\ InitOne
  /\ [][NextViewTime]_vars
  /\ WF_vars(\E p \in Pids, rect \in BOOLEAN : view_time_counter(p, rect))

\* ======================= properties ======================================

\* the view-time pixels of Placement p among the children of its target
TimePixelsOf(p) ==
  LET ch == elements[placements[p].target].children IN
  {i \in 1..Len(ch) : ch[i].kind = "time" /\ ch[i].p = p}

\* C1: for every Placement, view_time_sent goes from false to true at most
\* once and never back, and the Placement appends at most one view-time
\* pixel to its target, however timer ticks and visibilitychange events
\* interleave.
C1_SentOnce ==
  /\ [](\A p \in Pids :
          /\ placements[p].time_pixels <= 1
          /\ Cardinality(TimePixelsOf(p)) <= 1
          /\ placements[p].view_time_sent <=> placements[p].time_pixels = 1)
  /\ [][\A p \in Pids :
          placements[p].view_time_sent => placements'[p].view_time_sent]_vars

\* C1 witness: a report was sent, the page is visible again and the
\* view-time timer has seen the flag and cancelled itself
C1_Witness ==
  \E p \in Pids :
    /\ placements[p].view_time_sent
    /\ ~placements[p].view_time_counter
    /\ visibilityState = "visible"

\* C2 as claimed: in every state, view_time_sent implies a positive view_time
\* and a stored response that carries view_time_url.
C2_SentImpliesUrl ==
  \A p \in Pids :
    placements[p].view_time_sent =>
      placements[p].view_time > 0 /\ placements[p].response.view_time_url

\* C3: the page-ready promise never rejects, whatever load_placements does.
C3_WaitNeverRejects == wait.state \in {"pending", "resolved"}

\* C3 witness: the bootstrap's Promise.all rejected and wait is resolved
C3_Witness == bootAll.state = "rejected" /\ wait.state = "resolved"

\* C4 as claimed: once the DOM is ready and every request the bootstrap
\* started has completed, wait is resolved (to the empty list unless the
\* bootstrap's Promise.all fulfilled), also with zero marker elements.
C4_WaitResolves ==
  (domReady /\ \A p \in Pids : placements[p].boot => placements[p].script # "inflight")
    => /\ wait.state = "resolved"
       /\ bootAll.state # "fulfilled" => wait.value = <<>>

\* responses the callback treats as no ad
BadResponses == {r \in ServerResponses : r.missing \/ r.html = "absent" \/ ~r.view_url}

\* C5: the callback of a pending fetch, called with a response that is
\* missing or lacks html or view_url, resolves the fetch with null and
\* leaves the stored response as it was; a fetch already settled keeps its
\* value.
C5_NoAdResolvesNull ==
  [][\A p \in Pids : \A r \in BadResponses :
       ScriptLoad(p, r) =>
         LET q == window[placements[p].callback] IN
         /\ placements'[q].response = placements[q].response
         /\ placements'[q].fetch =
              IF placements[q].fetch = "pending" THEN "null" ELSE placements[q].fetch]_vars

\* C5 witness: a script ran its callback and the fetch is resolved with null,
\* no response stored
C5_Witness ==
  \E p \in Pids :
    /\ placements[p].script = "loaded"
    /\ placements[p].fetch = "null"
    /\ ~placements[p].response.present

\* C6: a script error on a pending fetch resolves it with undefined, which
\* load() tells from null by the warning it throws; fetch() never rejects.
C6_BlockedResolvesUndefined ==
  /\ [][\A p \in Pids :
          (ScriptError(p) /\ placements[p].fetch = "pending")
            => placements'[p].fetch = "undefined"]_vars
  /\ [](\A p \in Pids :
          /\ placements[p].fetch \in {"none", "pending", "node", "null", "undefined"}
          /\ placements[p].fetch = "undefined"
               <=> placements[p].error = EthicalAdsWarning("Ad decision request blocked")
          /\ placements[p].fetch = "null"
               <=> placements[p].error = EthicalAdsWarning("No ads to show."))

\* C6 witness: a script failed and its fetch is resolved with undefined
C6_Witness ==
  \E p \in Pids : placements[p].script = "error" /\ placements[p].fetch = "undefined"

\* C7: when fetch() yields null or undefined, load() rejects with an
\* EthicalAdsWarning and the step leaves every marker element as it was;
\* the Placement has no timer and no listener.
C7_WarningLeavesTarget ==
  /\ [][\A p \in Pids :
          (placements[p].fetch = "pending" /\ placements'[p].fetch \in {"null", "undefined"})
            => elements' = elements /\ listeners' = listeners]_vars
  /\ [](\A p \in Pids :
          placements[p].fetch \in {"null", "undefined"} =>
            /\ placements[p].load = "rejected"
            /\ placements[p].error.class = "EthicalAdsWarning"
            /\ ~placements[p].viewport_detection
            /\ ~placements[p].view_time_counter
            /\ ~Contains(listeners, p)
            /\ \A i \in 1..Len(elements[placements[p].target].children) :
                 elements[placements[p].target].children[i].p # p)

\* C7 witness: a load rejected for no ad and its target still has its
\* original child and no "loaded" class
C7_Witness ==
  \E p \in Pids :
    /\ placements[p].fetch = "null"
    /\ placements[p].load = "rejected"
    /\ elements[placements[p].target].className = <<>>
    /\ elements[placements[p].target].children = <<[kind |-> "orig", p |-> 0, q |-> 0]>>

\* C8 as claimed: no two Placements have a load in progress or completed on
\* the same marker element.
C8_OneLoadPerElement ==
  \A p, q \in Pids :
    (p # q /\ placements[p].target = placements[q].target)
      => ~(/\ placements[p].load \in {"pending", "fulfilled"}
           /\ placements[q].load \in {"pending", "fulfilled"})

\* C8 amended: once a load has completed on a marker element, no later call
\* creates a Placement for that element; two Placements share an element
\* only when both were created before either load completed.
C8_NoLoadAfterCompleted ==
  [][\A p \in Pids : \A q \in (Len(placements) + 1)..Len(placements') :
       placements[p].load = "fulfilled"
         => placements'[q].target # placements[p].target]_vars

\* C8 witness: a manual load completed on a marker that is not flagged
\* manual, and the bootstrap that ran afterwards created nothing for it
C8_Witness ==
  \E p \in Pids :
    /\ placements[p].load = "fulfilled"
    /\ ~placements[p].boot
    /\ ~elements[placements[p].target].manual
    /\ domReady
    /\ \A q \in Pids : placements[q].target = placements[p].target => q = p

\* "loaded" is one of the classes of marker e
HasLoadedClass(e) ==
  \E i \in 1..Len(elements[e].className) : elements[e].className[i] = "loaded"

\* C9: for a marker whose classes contain "loaded", a load_placements call
\* (bootstrap, manual trigger or direct, forced or not) creates no Placement,
\* so issues no request, and leaves the element's children and class alone.
C9_LoadedIsSkipped ==
  [][(Bootstrap \/ load \/ LoadPlacementsCall) =>
       \A e \in Elements :
         HasLoadedClass(e) =>
           /\ \A q \in (Len(placements) + 1)..Len(placements') :
                placements'[q].target # e
           /\ elements'[e] = elements[e]]_vars

\* C9 witness: the bootstrap ran over a page whose marker carried "loaded"
\* and the marker has no Placement and its original child
C9_Witness ==
  \E e \in Elements :
    /\ elements[e].inDoc
    /\ HasLoadedClass(e)
    /\ domReady
    /\ bootAll.state = "fulfilled"
    /\ \A p \in Pids : placements[p].target # e
    /\ elements[e].children = <<[kind |-> "orig", p |-> 0, q |-> 0]>>

\* C10: with zero marker elements a load_placements call throws
\* "No ad placements found." and creates no Placement, registers no
\* callback, injects no script and starts no probe.
C10_NoMarkersThrows ==
  [][(Len(node_list) = 0 /\ (Bootstrap \/ load \/ LoadPlacementsCall)) =>
       /\ UNCHANGED <<placements, window, probes, elements, listeners, wait>>
       /\ domReady' # domReady =>
            bootAll' = [state |-> "threw", error |-> "No ad placements found.",
                        entries |-> <<>>]]_vars

\* C10 witness: the bootstrap ran on a page without markers and threw
C10_Witness ==
  /\ \A e \in Elements : ~elements[e].inDoc
  /\ bootAll.state = "threw"
  /\ placements = <<>>

\* the view pixels of Placement p among the children of its target
ViewPixelsOf(p) ==
  LET ch == elements[placements[p].target].children IN
  {i \in 1..Len(ch) : ch[i].kind = "view" /\ ch[i].p = p}

\* C11: a Placement appends at most one view pixel: the first viewport tick
\* that sees the ad in the viewport with the page visible appends the pixel
\* and cancels the viewport timer, and no later tick appends another.
C11_ViewPixelOnce ==
  /\ [](\A p \in Pids :
          /\ placements[p].view_pixels <= 1
          /\ Cardinality(ViewPixelsOf(p)) <= 1
          /\ placements[p].view_pixels = 1 => ~placements[p].viewport_detection)
  /\ [][\A p \in Pids :
          /\ (ViewportTick(p, TRUE) /\ visibilityState = "visible")
               => /\ placements'[p].view_pixels = placements[p].view_pixels + 1
                  /\ Cardinality(ViewPixelsOf(p))' = 1
                  /\ ~placements'[p].viewport_detection
          /\ placements'[p].view_pixels >= placements[p].view_pixels]_vars


\* C11 witness: the view pixel was appended, the timer is cancelled and the
\* Placement went on to count view time and to report it
C11_Witness ==
  \E p \in Pids :
    /\ placements[p].view_pixels = 1
    /\ ~placements[p].viewport_detection
    /\ placements[p].view_time_sent
    /\ Cardinality(ViewPixelsOf(p)) = 1

\* C12: view_time never exceeds VIEW_TIME_MAX; a view-time tick that sees
\* the ad in view before the report adds exactly VIEW_TIME_INTERVAL and
\* leaves the report unsent; at the cap the view-time timer is cancelled and
\* the counter never changes again.
C12_ViewTimeCapped ==
  /\ [](\A p \in Pids :
          /\ placements[p].view_time \in 0..VIEW_TIME_MAX
          /\ placements[p].view_time = VIEW_TIME_MAX => ~placements[p].view_time_counter)
  /\ [][\A p \in Pids :
          /\ placements'[p].view_time \in
               {placements[p].view_time, placements[p].view_time + VIEW_TIME_INTERVAL}
          /\ (/\ view_time_counter(p, TRUE)
              /\ visibilityState = "visible"
              /\ ~placements[p].view_time_sent)
               => /\ placements'[p].view_time = placements[p].view_time + VIEW_TIME_INTERVAL
                  /\ ~placements'[p].view_time_sent
          /\ placements[p].view_time = VIEW_TIME_MAX
               => placements'[p].view_time = VIEW_TIME_MAX]_vars

\* C12 witness: the counter stands at the cap, its timer is cancelled and the
\* report has not been sent
C12_Witness ==
  \E p \in Pids :
    /\ placements[p].view_time = VIEW_TIME_MAX
    /\ ~placements[p].view_time_counter
    /\ ~placements[p].view_time_sent
    /\ placements[p].response.view_time_url

\* C13 as claimed: when every load the bootstrap started succeeded, wait is
\* resolved with one entry per marker: null for a skipped marker, the
\* Placement instance (neither null nor undefined) for a loaded one.
C13_WaitListsPlacements ==
  (bootAll.state = "fulfilled" /\ wait.state = "resolved") =>
    /\ Len(wait.value) = Len(bootAll.entries)
    /\ \A i \in 1..Len(bootAll.entries) :
         IF bootAll.entries[i] = 0
         THEN wait.value[i] = "null"
         ELSE wait.value[i] \notin {"null", "undefined"}

\* the loads the bootstrap started that succeeded, and those that failed
BootLoads(outcome) ==
  {p \in Pids : placements[p].boot /\ placements[p].load = outcome}

\* C14 as claimed: when the loads the bootstrap started have all settled,
\* some failed and some succeeded, wait is resolved to the ones that
\* succeeded.
C14_WaitIsSubset ==
  (/\ BootLoads("rejected") # {}
   /\ BootLoads("fulfilled") # {}
   /\ BootLoads("pending") = {})
    => /\ wait.state = "resolved"
       /\ Len(wait.value) = Cardinality(BootLoads("fulfilled"))

\* C14 amended: as soon as one load started by the bootstrap has failed, wait
\* is resolved to the empty list, and it stays so whatever the other loads
\* do: a load that succeeded is not listed.
C14_FailureResolvesEmpty ==
  BootLoads("rejected") # {}
    => /\ bootAll.state = "rejected"
       /\ wait.state = "resolved"
       /\ wait.value = <<>>

\* C14 witness: of the loads of the bootstrap one succeeded and another
\* failed, none is pending, and wait is resolved to the empty list

C14_Witness ==
  /\ BootLoads("rejected") # {}
  /\ BootLoads("fulfilled") # {}
  /\ BootLoads("pending") = {}
  /\ wait = [state |-> "resolved", value |-> <<>>]

\* C15 as claimed: once the fetch of a Placement has an outcome (its callback
\* was invoked or its script error was taken), no later step changes that
\* outcome or the Placement's stored response.
C15_CallbackOneShot ==
  [][\A q \in Pids :
       placements[q].fetch # "pending"
         => /\ placements'[q].fetch = placements[q].fetch
            /\ placements'[q].response = placements[q].response]_vars

\* C16 as claimed: two fetches in flight at the same time have registered
\* different callback names, so the callback a script will call is the one
\* of the Placement that issued the request.
C16_DistinctNames ==
  \A p, q \in Pids :
    (placements[p].script = "inflight" /\ placements[q].script = "inflight" /\ p # q)
      => /\ placements[p].callback # placements[q].callback
         /\ window[placements[p].callback] = p

\* the probes whose callback has assigned uplifted
Assignments == {i \in 1..Len(abp) : abp[i].called}

\* C17 as claimed: over any sequence of calls to the entry points, uplifted
\* is assigned at most once, and a probe is started only by an unforced
\* load_placements call whose first marker yields a Placement.
C17_UpliftedAssignedOnce ==
  /\ [](Cardinality(Assignments) <= 1)
  /\ [][Len(abp') > Len(abp) =>
          /\ Bootstrap \/ LoadPlacementsCall
          /\ Len(abp') = Len(abp) + 1
          /\ ~from_element_null(elements[Head(node_list)])]_vars

\* every marker element other than e is as it was
OthersUnchanged(e) == \A o \in Elements \ {e} : elements'[o] = elements[o]

\* C18 as claimed: a step of one Placement (the reaction to its response, a
\* tick of its viewport timer, a click on its dismiss control) leaves every
\* marker element other than the Placement's own target in the document and
\* with the children and class it had.
C18_OnlyOwnTarget ==
  [][\A p \in Pids :
       /\ HideClick(p) => OthersUnchanged(placements[p].target)
       /\ \A rect \in BOOLEAN :
            ViewportTick(p, rect) => OthersUnchanged(placements[p].target)
       /\ \A r \in ServerResponses :
            ScriptLoad(p, r)
              => OthersUnchanged(placements[window[placements[p].callback]].target)]_vars

\* the canonical tags of the dictionary
Tags == {KEYWORDS[w] : w \in DOMAIN KEYWORDS}

\* occurrences of tag among the analysed words, synonyms summed
Occurrences(tag, words) ==
  Cardinality({i \in 1..Len(words) :
                 /\ i <= MAX_WORDS_ANALYZED
                 /\ hasOwnProperty(Normalize(words[i]))
                 /\ KEYWORDS[Normalize(words[i])[1]] = tag})

\* five times "kubernetes" and once "docker", in any order
IsExample(words) ==
  /\ Len(words) = 6
  /\ Cardinality({i \in 1..6 : words[i] = <<"kubernetes">>}) = 5
  /\ Cardinality({i \in 1..6 : words[i] = <<"docker">>}) = 1

\* the Placements created by the step
Created == (Len(placements) + 1)..Len(placements')

\* C19: the list the first detectKeywords call returns for a page has at
\* most MAX_KEYWORDS tags, each a canonical tag with at least
\* MIN_KEYWORD_OCCURRENCES occurrences among the analysed words, in order of
\* non-increasing count; five "kubernetes" and one "docker" give
\* ["kubernetes"].
C19_KeywordsBounded ==
  [][\A q \in Created :
       ~detectedKeywords.set =>
         LET k == placements'[q].keywords IN
         /\ Len(k) <= MAX_KEYWORDS
         /\ \A i \in 1..Len(k) :
              /\ k[i] \in Tags
              /\ Occurrences(k[i], page) >= MIN_KEYWORD_OCCURRENCES
         /\ \A i, j \in 1..Len(k) :
              i < j => Occurrences(k[i], page) >= Occurrences(k[j], page)
         /\ IsExample(page) => k = <<"kubernetes">>]_vars

\* C19 witness: a page on which more than MAX_KEYWORDS tags occur often
\* enough was scanned and a Placement got exactly MAX_KEYWORDS of them
C19_Witness ==
  \E p \in Pids :
    /\ Cardinality({t \in Tags : Occurrences(t, page) >= MIN_KEYWORD_OCCURRENCES})
         > MAX_KEYWORDS
    /\ detectedKeywords = [set |-> TRUE, value |-> ScanKeywords(page)]
    /\ placements[p].keywords = detectedKeywords.value
    /\ Len(placements[p].keywords) = MAX_KEYWORDS

\* C20: after the first detectKeywords call the cache never changes and every
\* later call, from any Placement, returns the cached list, also when that
\* list is empty and when the page text has changed since.
C20_CachedKeywords ==
  /\ [][detectedKeywords.set =>
          /\ detectedKeywords' = detectedKeywords
          /\ \A q \in Created : placements'[q].keywords = detectedKeywords.value]_vars
  /\ [](\A p \in Pids :
          detectedKeywords.set /\ placements[p].keywords = detectedKeywords.value)

\* C20 witness: the first call found no keyword, the page text was then
\* replaced by one with a keyword, and a second Placement got the empty list
C20_Witness ==
  /\ Len(placements) = 2
  /\ detectedKeywords = [set |-> TRUE, value |-> <<>>]
  /\ ScanKeywords(page) # <<>>
  /\ placements[2].keywords = <<>>

\* C21: for a loaded Placement with view_time > 0, a view_time_url in its
\* response and the report unsent, a visibilitychange event delivered while
\* the page is "hidden" or "unloaded" appends exactly one view-time pixel
\* that carries the counter's value, sets view_time_sent and removes the
\* Placement's listener; an event delivered while the page is visible changes
\* no element, Placement or listener.
C21_ReportOnHide ==
  [][\A p \in Pids : \A vis \in AllVisibilityStates :
       VisibilityChange(vis) =>
         LET pl == placements[p]
             ch == elements[pl.target].children
         IN
         /\ (/\ vis # "visible"
             /\ pl.load = "fulfilled"
             /\ pl.view_time > 0
             /\ pl.response.view_time_url
             /\ ~pl.view_time_sent)
              => /\ Contains(listeners, p)
                 /\ elements'[pl.target].children =
                      Append(ch, [kind |-> "time", p |-> p, q |-> pl.view_time])
                 /\ placements'[p].time_pixels = pl.time_pixels + 1
                 /\ placements'[p].view_time_sent
                 /\ placements'[p].view_time = pl.view_time
                 /\ ~Contains(listeners', p)
         /\ vis = "visible"
              => /\ elements' = elements
                 /\ placements' = placements
                 /\ listeners' = listeners]_vars

\* C21 witness: the page went to "unloaded" after the counter had passed one
\* tick; the report carries the counter's value and the listener is gone
C21_Witness ==
  \E p \in Pids :
    /\ visibilityState = "unloaded"
    /\ placements[p].view_time > VIEW_TIME_INTERVAL
    /\ placements[p].view_time_sent
    /\ placements[p].time_pixels = 1
    /\ \E i \in TimePixelsOf(p) :
         elements[placements[p].target].children[i].q = placements[p].view_time
    /\ ~Contains(listeners, p)

\* C22: once view_time_sent is true the counter never changes again and the
\* next tick of the view-time timer cancels the timer; the value the report
\* carries is the counter's value from then on; with the timer's callback
\* run again and again while the timer is active, every report is followed
\* by the cancellation of the timer.
C22_TimerStopsAfterReport ==
  /\ [][\A p \in Pids :
          placements[p].view_time_sent =>
            /\ placements'[p].view_time = placements[p].view_time
            /\ \A rect \in BOOLEAN :
                 view_time_counter(p, rect) => ~placements'[p].view_time_counter]_vars
  /\ [](\A p \in Pids :
          placements[p].view_time_sent =>
            \A i \in TimePixelsOf(p) :
              elements[placements[p].target].children[i].q = placements[p].view_time)
  /\ \A p \in 1..MaxPlacements :
       (p \in Pids /\ placements[p].view_time_sent)
         ~> (p \in Pids /\ ~placements[p].view_time_counter)

\* C22 witness: a report was sent below the cap, the page became visible
\* again with the ad in view, and the timer is cancelled with the counter at
\* the reported value
C22_Witness ==
  \E p \in Pids :
    /\ placements[p].view_time_sent
    /\ placements[p].view_time < VIEW_TIME_MAX
    /\ ~placements[p].view_time_counter
    /\ visibilityState = "visible"
    /\ \E i \in TimePixelsOf(p) :
         elements[placements[p].target].children[i].q = placements[p].view_time

\* a tracker of Placement p is set up: one of its timers is active or its
\* visibilitychange listener is registered
Tracked(p) ==
  \/ placements[p].viewport_detection
  \/ placements[p].view_time_counter
  \/ Contains(listeners, p)

\* C23: whenever a timer or the visibilitychange listener of a Placement can
\* run, the Placement's fetch yielded a node, its stored response is non-null
\* with a view_url, and its target carries the "loaded" class; a stored
\* response is only ever written by a callback that was handed a response
\* with html and view_url, so it always has both.
C23_TrackersAfterSuccess ==
  /\ [](\A p \in Pids :
          /\ Tracked(p) \/ placements[p].view_pixels > 0 \/ placements[p].view_time > 0
               => /\ placements[p].fetch = "node"
                  /\ placements[p].load = "fulfilled"
                  /\ placements[p].response.present
                  /\ placements[p].response.view_url
                  /\ HasLoadedClass(placements[p].target)
          /\ placements[p].response.present => placements[p].response.view_url)
  /\ [][\A q \in Pids :
          placements'[q].response # placements[q].response =>
            \E p \in Pids, r \in ServerResponses :
              /\ ScriptLoad(p, r)
              /\ window[placements[p].callback] = q
              /\ ~r.missing /\ r.html # "absent" /\ r.view_url]_vars

\* C23 witness: a Placement whose response came with the script of another
\* Placement's request was loaded, and each of its trackers has run: the view
\* pixel is appended, view time is counted, the listener is still registered
C23_Witness ==
  \E p \in Pids :
    /\ placements[p].response.present
    /\ placements[p].response.req # p
    /\ placements[p].view_pixels = 1
    /\ placements[p].view_time > 0
    /\ Contains(listeners, p)
    /\ HasLoadedClass(placements[p].target)

\* Placement p is the only Placement loaded on its target
LoadedOnce(p) ==
  \A q \in Pids : placements[q].target = placements[p].target => q = p

\* C24 as claimed: for a Placement loaded once, view_time_sent implies that
\* the Placement's view pixel has been appended to its target, however the
\* ticks of the two timers, viewport changes and visibilitychange events
\* interleave.
C24_ViewBeforeReport ==
  \A p \in Pids :
    (LoadedOnce(p) /\ placements[p].view_time_sent)
      => /\ placements[p].view_pixels >= 1
         /\ ViewPixelsOf(p) # {}

\* the log entry that matches an error: console.debug for an
\* EthicalAdsWarning, console.error for any other Error
Matching(err) ==
  [level |-> IF err.class = "EthicalAdsWarning" THEN "debug" ELSE "error",
   message |-> err.message]

\* the entries of the console equal to entry
Logged(entry) == {i \in 1..Len(console) : console[i] = entry}

\* C25 as claimed: every load started by the bootstrap that failed has
\* exactly one log entry of the matching severity, also when several
\* placements of the page fail: the console holds as many entries as loads
\* failed, and for each error as many matching entries as loads failed with it.
C25_EveryFailureLogged ==
  /\ Len(console) = Cardinality(BootLoads("rejected"))
  /\ \A p \in BootLoads("rejected") :
       Cardinality(Logged(Matching(placements[p].error)))
         = Cardinality({q \in BootLoads("rejected") :
                          placements[q].error = placements[p].error})

\* C25 amended: the first failure of a load started by the bootstrap is
\* caught and turned into exactly one log entry of the matching severity,
\* written in the step in which the load fails; a later failure of another
\* placement is caught without a log entry, so the console holds one entry
\* once any load has failed and none before.
C25_FirstFailureLogged ==
  /\ [](Len(console) = IF BootLoads("rejected") = {} THEN 0 ELSE 1)
  /\ [][\A p \in Pids :
          (/\ placements[p].boot
           /\ placements[p].load = "pending"
           /\ placements'[p].load = "rejected")
            => console' = IF BootLoads("rejected") = {}
                          THEN Append(console, Matching(placements'[p].error))
                          ELSE console]_vars

\* C25 witness: two loads of the bootstrap failed, the first blocked and the
\* second for want of an ad, and the console holds the entry of the first only
C25_Witness ==
  /\ console = <<[level |-> "debug", message |-> "Ad decision request blocked"]>>
  /\ \E p, q \in BootLoads("rejected") :
       /\ placements[p].error.message = "Ad decision request blocked"
       /\ placements[q].error.message = "No ads to show."

\* C26: every probe invokes its callback exactly once: after at most the
\* polls at 250, 500, 1000 and 2000 ms the callback has been called,
\* whether both images completed, one or none, and an image that completes
\* after the polling gave up neither calls it again nor changes uplifted.
C26_ProbeTerminates ==
  /\ [](\A i \in 1..Len(abp) :
          /\ abp[i].timeout \in {500, 1000, 2000}
          /\ abp[i].calls = IF abp[i].called THEN 1 ELSE 0)
  /\ [][\A i \in 1..Len(abp) :
          /\ abp[i].called => abp'[i].calls = 1
          /\ \A k \in 1..2 : (ImgLoad(i, k) \/ ImgError(i, k)) => uplifted' = uplifted]_vars
  /\ \A i \in 1..MaxProbes :
       (i <= Len(abp)) ~> (i <= Len(abp) /\ abp[i].calls = 1)

\* C26 witness: the one probe gave up after its last poll with no image
\* complete and called back with false; both images completed afterwards
\* (the first loaded, the second failed) and the callback was not called again
C26_Witness ==
  /\ Len(abp) = 1
  /\ abp[1].calls = 1
  /\ abp[1].timeout = 2000
  /\ abp[1].checksRemain = 0
  /\ abp[1].detected
  /\ ~uplifted
====
